---- MODULE Spec2Model ----
(***************************************************************************)
(* Model of the document-ingestion and OCR pipeline of the FileUpload      *)
(* component (src/components/FileUpload.tsx) together with the shared      *)
(* application state of AppContext (src/contexts/AppContext.tsx).          *)
(*                                                                         *)
(* Every call of handleFile starts one operation (an invocation of the     *)
(* async function ocrPdfDocument or ocrImageFile).  JavaScript runs one    *)
(* handler at a time, so an operation is modelled by its await points: an  *)
(* action resumes one operation from the await it is suspended at, with    *)
(* the outcome of the awaited call (resolved or rejected), and runs it to  *)
(* its next await.  Operations started by different handleFile calls       *)
(* interleave at their await points and share the React state and the      *)
(* ocrPageProgressDataRef cell.                                            *)
(*                                                                         *)
(* JavaScript numbers are modelled as fractions <<n, d>> with d >= 0:      *)
(* <<n, d>> with d > 0 is n / d, <<1, 0>> is Infinity and <<0, 0>> is NaN. *)
(* Text is a sequence of one-character strings.                            *)
(***************************************************************************)
EXTENDS Integers, Sequences, FiniteSets, TLC

\* ------------------------------------------------------------------ bounds

\* handleFile calls in one behaviour (each starts at most one operation)
MaxOps == 2
\* pages of an uploaded PDF (0 .. MaxPages)
MaxPages == 2
\* the recognition fractions a logger event reports are k / FracDen, k in 0 .. FracDen
FracDen == 2

OpIds == 1 .. MaxOps
NoOp == 0

\* what one page, or one image, is recognized as
PageTexts == { <<" ">>, <<"A">> }

FileTypes == {"pdf", "image", "other"}

\* m.status of a logger event: the progress status, one of the four
\* initialisation statuses, one of the two silenced statuses, any other status
Statuses == {"recognizing text", "loading tesseract core", "initialized api", "done"}

\* m.progress of a logger event: a fraction <<k, FracDen>>, or absent
Undefined == <<0, -1>>
Fractions == { <<k, FracDen>> : k \in 0 .. FracDen }

\* --------------------------------------------------------- number helpers

Num(n) == <<n, 1>>
Infinity == <<1, 0>>
NaN == <<0, 0>>
IsNaN(x) == x = NaN
IsInf(x) == x[2] = 0 /\ x[1] # 0
IsFinite(x) == x[2] > 0

\* a * b for a finite a >= 0 (0 * Infinity is NaN)
Mul(a, b) ==
    IF IsNaN(b) THEN NaN
    ELSE IF IsInf(b) THEN (IF a[1] = 0 THEN NaN ELSE Infinity)
    ELSE <<a[1] * b[1], a[2] * b[2]>>

\* a + b for non-negative operands
Add(a, b) ==
    IF IsNaN(a) \/ IsNaN(b) THEN NaN
    ELSE IF IsInf(a) \/ IsInf(b) THEN Infinity
    ELSE <<a[1] * b[2] + b[1] * a[2], a[2] * b[2]>>

\* Math.round: the nearest integer, halves rounded up
MathRound(x) ==
    IF IsFinite(x) THEN Num((2 * x[1] + x[2]) \div (2 * x[2])) ELSE x

\* Math.min(100, x)
Min100(x) ==
    IF IsNaN(x) THEN NaN
    ELSE IF IsInf(x) THEN Num(100)
    ELSE IF x[1] > 100 * x[2] THEN Num(100) ELSE x

\* ----------------------------------------------------------- text helpers

IsSpace(c) == c \in {" ", "\n"}

RECURSIVE TrimStart(_)
TrimStart(s) ==
    IF s = <<>> THEN s
    ELSE IF IsSpace(Head(s)) THEN TrimStart(Tail(s)) ELSE s

RECURSIVE TrimEnd(_)
TrimEnd(s) ==
    IF s = <<>> THEN s
    ELSE IF IsSpace(s[Len(s)]) THEN TrimEnd(SubSeq(s, 1, Len(s) - 1)) ELSE s

\* String.prototype.trim
Trim(s) == TrimEnd(TrimStart(s))

\* ------------------------------------------------------------------ state

VARIABLES
    \* AppContext (src/contexts/AppContext.tsx)
    isLoading,              \* useState<boolean>(false)
    currentFile,            \* the operation whose file is held, or NoOp for null
    rawExtractedText,       \* useState<string>('')
    statusMessage,          \* [type, text, detail]; type "null" for null
    timers,                 \* pending setTimeout callbacks of clearStatusMessageAfterDelay
    \* FileUpload component state
    processingProgress,     \* useState(0)
    processingMessage,      \* useState(''), a tagged tuple
    ocrPageProgressDataRef, \* useRef({currentPage, totalPages, baseProgress, pageBudget})
    \* operations
    nextOp,                 \* handleFile calls made so far
    op,                     \* per operation: the async function's locals and position
    worker,                 \* per operation: the Tesseract worker it created
    page,                   \* per operation: the PDF pages it obtained
    obs,                    \* per operation: what it has emitted so far
    \* the session (supabase.auth.onAuthStateChange)
    signedOut,              \* a SIGNED_OUT event was delivered and no user action followed
    \* the hooks (src/src/hooks), one instance of each
    useAsync,               \* refs, state and pending calls of a useAsync instance
    useApi,                 \* refs, state, requests and retry timers of a useApi instance
    useFileUpload           \* state.files and the pending addFiles calls of a useFileUpload instance

vars == <<isLoading, currentFile, rawExtractedText, statusMessage, timers,
          processingProgress, processingMessage, ocrPageProgressDataRef,
          nextOp, op, worker, page, obs, signedOut, useAsync, useApi,
          useFileUpload>>

\* the state of the FileUpload component and the document state it uses
component == <<isLoading, currentFile, rawExtractedText, statusMessage, timers,
               processingProgress, processingMessage, ocrPageProgressDataRef,
               nextOp, op, worker, page, obs>>
\* the hook instances
hooks == <<useAsync, useApi, useFileUpload>>
\* the state outside the FileUpload component and the document state
others == <<signedOut, hooks>>

\* ---- useAsync (src/src/hooks/useAsync.ts)

\* retryConfig.maxAttempts, the default
maxAttempts == 3
\* the execute calls followed (each creates its own AbortController and timer)
MaxExecutes == 4
Executes == 1 .. MaxExecutes
\* the execute calls among them that the component makes itself
MaxDirect == 1

\* an execute call before it is made; result: what its promise settled with
IdleExecute == [pc |-> "idle", fromRetry |-> FALSE, abortedAtSettle |-> FALSE,
                result |-> "none"]
\* new AbortController(); timer: the execute call whose timeout timer aborted it
NewController == [aborted |-> FALSE, timer |-> 0]
\* executeWithRetry before it is called
IdleRetry == [pc |-> "idle", attempt |-> 0, current |-> 0, invocations |-> 0,
              lastError |-> "none", result |-> "none"]

\* the hook after its first render: useState and useRef initial values; the
\* references hold the number of the execute call that created the object, 0 for null
InitUseAsync ==
    [state |-> [isLoading |-> FALSE, isSuccess |-> FALSE, isError |-> FALSE],
     abortControllerRef |-> 0,
     timeoutRef |-> 0,
     executes |-> 0,
     exec |-> [k \in Executes |-> IdleExecute],
     controller |-> [k \in Executes |-> NewController],
     timeouts |-> {},
     reported |-> {},
     retry |-> IdleRetry]

\* ---- useApi (src/src/hooks/useAppState.ts)

\* defaultConfig.retries
retries == 3
\* the requests followed (each execute call that reaches makeRequest is one)
MaxRequests == 4
Requests == 1 .. MaxRequests

\* a request before it is issued; aborted: the signal of its AbortController;
\* afterCancel: it was issued after cancel() or the unmount, with no execute
\* call by the component in between
IdleRequest == [pc |-> "idle", aborted |-> FALSE, byTimer |-> FALSE,
                afterCancel |-> FALSE]

\* the hook after its first render; abortControllerRef holds the number of
\* the request that created the controller, 0 for null
InitUseApi ==
    [loading |-> FALSE,
     abortControllerRef |-> 0,
     retryCountRef |-> 0,
     requests |-> 0,
     req |-> [k \in Requests |-> IdleRequest],
     retryTimers |-> {},
     cancelled |-> FALSE,
     mounted |-> TRUE]

\* ---- useFileUpload (src/src/hooks/useFileUpload.ts)

\* config.maxFiles, here a limit that lets one call add more than one file
maxFiles == 2
\* the addFiles calls followed, and the files one call is given at most
MaxAdds == 2
MaxGiven == 2
Adds == 1 .. MaxAdds

\* an addFiles call before it is made; snapshot: the state.files its closure holds
IdleAdd == [pc |-> "idle", snapshot |-> <<>>, given |-> 0, newFiles |-> <<>>,
            warnings |-> FALSE]

\* the hook after its first render; a file is the pair <<call, index>>
InitUseFileUpload ==
    [files |-> <<>>,
     error |-> FALSE,
     adds |-> 0,
     add |-> [a \in Adds |-> IdleAdd]]

NullStatus == [type |-> "null", text |-> "", detail |-> ""]
Status(type, text, detail) == [type |-> type, text |-> text, detail |-> detail]

EmptyMessage == <<"">>
RefReset == [currentPage |-> 0, totalPages |-> 0, baseProgress |-> Num(0), pageBudget |-> Num(0)]

IdleOp == [type |-> "none", numPages |-> 0, pc |-> "idle", i |-> 0, fullText |-> <<>>,
           tesseractWorker |-> FALSE, closureMessage |-> EmptyMessage]
NoWorker == [state |-> "none", created |-> 0, terminateCalls |-> 0]
NoPages == [held |-> {}]
\* texts: the texts the recognize calls of the operation have returned so far
NoObs == [lastProgress |-> Num(0), outcome |-> "none", cancelled |-> {}, texts |-> <<>>]

\* the await an operation is suspended at
AwaitPoints == {"arrayBuffer", "getDocument", "createWorker", "getPage", "render",
                "recognize", "terminate", "catchTerminate"}
InFlight(o) == op[o].pc \in AwaitPoints
\* the async function has returned ("done") or its promise was rejected ("rejected")
Finished(o) == op[o].pc \in {"done", "rejected"}

Init ==
    /\ isLoading = FALSE
    /\ currentFile = NoOp
    /\ rawExtractedText = <<>>
    /\ statusMessage = NullStatus
    /\ timers = 0
    /\ processingProgress = Num(0)
    /\ processingMessage = EmptyMessage
    /\ ocrPageProgressDataRef = RefReset
    /\ nextOp = 0
    /\ op = [o \in OpIds |-> IdleOp]
    /\ worker = [o \in OpIds |-> NoWorker]
    /\ page = [o \in OpIds |-> NoPages]
    /\ obs = [o \in OpIds |-> NoObs]
    /\ signedOut = FALSE
    /\ useAsync = InitUseAsync
    /\ useApi = InitUseApi
    /\ useFileUpload = InitUseFileUpload

\* ---------------------------------------------------------------- context
\* The state one operation's code reads and writes, as one record; a block of
\* code is an operator from context to context.

Cx(o) ==
    [op |-> op[o], worker |-> worker[o], page |-> page[o], obs |-> obs[o],
     isLoading |-> isLoading, rawExtractedText |-> rawExtractedText,
     statusMessage |-> statusMessage, timers |-> timers,
     processingProgress |-> processingProgress,
     processingMessage |-> processingMessage,
     ref |-> ocrPageProgressDataRef]

\* the context c of operation o becomes the state; obsBase is obs for the others
CommitFrom(o, c, obsBase) ==
    /\ op' = [op EXCEPT ![o] = c.op]
    /\ worker' = [worker EXCEPT ![o] = c.worker]
    /\ page' = [page EXCEPT ![o] = c.page]
    /\ obs' = [obsBase EXCEPT ![o] = c.obs]
    /\ isLoading' = c.isLoading
    /\ rawExtractedText' = c.rawExtractedText
    /\ statusMessage' = c.statusMessage
    /\ timers' = c.timers
    /\ processingProgress' = c.processingProgress
    /\ processingMessage' = c.processingMessage
    /\ ocrPageProgressDataRef' = c.ref
    /\ UNCHANGED others

Commit(o, c) == CommitFrom(o, c, obs)

\* setProcessingProgress(v), called by the operation or by its logger
SetProcessingProgress(c, v) ==
    [c EXCEPT !.processingProgress = v, !.obs.lastProgress = v]

SetProcessingMessage(c, m) == [c EXCEPT !.processingMessage = m]

\* setStatusMessage({text, type}) publishing the operation's outcome
SetOutcome(c, outcome, status) ==
    [c EXCEPT !.statusMessage = status, !.obs.outcome = outcome]

\* clearStatusMessageAfterDelay(): setTimeout(() => setStatusMessage(null), delay)
ClearStatusMessageAfterDelay(c) == [c EXCEPT !.timers = @ + 1]

\* worker.terminate() is called; the operation awaits it at pc
CallTerminate(c, pc) ==
    [c EXCEPT !.worker.terminateCalls = @ + 1, !.op.pc = pc]

\* ------------------------------------------------------- progress loggers

InitStatuses == {"loading tesseract core", "initializing api",
                 "loading language traineddata", "initializing tesseract"}
SilentStatuses == {"initialized api", "loaded language traineddata"}

\* (m.progress || 0)
OrZero(progress) == IF progress = Undefined THEN Num(0) ELSE progress
\* x < 1 for a finite x
LessThanOne(x) == x[1] < x[2]
\* Math.round(m.progress * 100), as the integer a message template prints
Percent(progress) == MathRound(Mul(progress, Num(100)))[1]

\* a logger that shows the fraction itself, not the percentage
ImageOcrLogger_Unscaled(c, m) ==
    IF m.status = "recognizing text" /\ m.progress # Undefined
    THEN SetProcessingMessage(SetProcessingProgress(c, MathRound(m.progress)),
                              <<"Reconhecendo texto", Percent(m.progress)>>)
    ELSE c

\* imageOcrLogger(m)
ImageOcrLogger(c, m) ==
    IF m.status = "recognizing text" /\ m.progress # Undefined
    THEN SetProcessingMessage(
             SetProcessingProgress(c, MathRound(Mul(m.progress, Num(100)))),
             <<"Reconhecendo texto", Percent(m.progress)>>)
    ELSE IF m.status \in InitStatuses
    THEN IF /\ c.op.closureMessage # <<"Reconhecendo texto", Percent(OrZero(m.progress))>>
            /\ LessThanOne(OrZero(m.progress))
         THEN SetProcessingMessage(c, <<"Inicializando OCR", m.status>>)
         ELSE c
    ELSE IF m.status \notin SilentStatuses /\ LessThanOne(OrZero(m.progress))
    THEN IF m.status # "recognizing text"
         THEN SetProcessingMessage(c, <<"status", m.status>>)
         ELSE c
    ELSE c

\* pageAwarePdfOcrLogger(m)
PageAwarePdfOcrLogger(c, m) ==
    LET baseProgress == c.ref.baseProgress
        pageBudget == c.ref.pageBudget
        analysing(pct) == <<"Analisando pagina (Progresso OCR)",
                            c.ref.currentPage, c.ref.totalPages, pct>>
    IN
    IF m.status = "recognizing text" /\ m.progress # Undefined
    THEN LET currentPageProgress == MathRound(Mul(m.progress, pageBudget))
             overallProgress == Min100(MathRound(Add(baseProgress, currentPageProgress)))
         IN SetProcessingMessage(SetProcessingProgress(c, overallProgress),
                                 analysing(Percent(m.progress)))
    ELSE IF m.status \in InitStatuses
    THEN IF /\ c.op.closureMessage # analysing(Percent(OrZero(m.progress)))
            /\ LessThanOne(OrZero(m.progress))
         THEN SetProcessingMessage(c, <<"Inicializando OCR para pagina",
                                        c.ref.currentPage, m.status>>)
         ELSE c
    ELSE IF m.status \notin SilentStatuses /\ LessThanOne(OrZero(m.progress))
    THEN IF m.status # "recognizing text"
         THEN SetProcessingMessage(c, <<"Status OCR pag.", c.ref.currentPage, m.status>>)
         ELSE c
    ELSE c

\* ------------------------------------------------------------ ocrImageFile

\* the async function ends at pc ("done": returned, "rejected": threw): its
\* locals are gone, and with them what was observed of it while in flight
EndOfFunction(c, pc) ==
    [c EXCEPT !.op = [IdleOp EXCEPT !.type = c.op.type, !.numPages = c.op.numPages,
                                    !.pc = pc],
              !.obs.cancelled = {}, !.obs.texts = <<>>]

\* a function without the finally block's setIsLoading(false)
ImageFinally_KeepsLoading(c, pc) ==
    EndOfFunction(SetProcessingProgress(SetProcessingMessage(c, EmptyMessage), Num(0)), pc)

\* finally { setIsLoading(false); setProcessingMessage(''); setProcessingProgress(0) }
ImageFinally(c, pc) ==
    EndOfFunction(
        [SetProcessingProgress(SetProcessingMessage(c, EmptyMessage), Num(0))
            EXCEPT !.isLoading = FALSE],
        pc)

\* if (worker) ... : the catch block releases the worker the local still refers to
ImageCatchTerminates(c) == c.op.tesseractWorker

\* a catch block that starts the recognition over
ImageCatch_Retries(c, detail) ==
    [SetOutcome([c EXCEPT !.rawExtractedText = <<>>], "failed",
                Status("error", "Falha ao processar imagem com OCR", detail))
        EXCEPT !.op.pc = "createWorker"]

\* a catch block that only logs the error
ImageCatch_OnlyLogs(c, detail) ==
    IF ImageCatchTerminates(c)
    THEN CallTerminate(c, "catchTerminate")
    ELSE ImageFinally(c, "done")

\* catch (error) { ... }
ImageCatch(c, detail) ==
    LET c1 == SetOutcome([c EXCEPT !.rawExtractedText = <<>>], "failed",
                         Status("error", "Falha ao processar imagem com OCR", detail))
    IN IF ImageCatchTerminates(c1)
       THEN CallTerminate(c1, "catchTerminate")
       ELSE ImageFinally(c1, "done")

\* the outcome published after the worker was terminated
ImageClassify(c) ==
    IF Trim(c.op.fullText) = <<>>
    THEN SetOutcome([c EXCEPT !.rawExtractedText = <<>>], "empty",
                    Status("warning", "OCR concluido, nenhum texto na imagem", ""))
    ELSE ClearStatusMessageAfterDelay(
             SetOutcome([c EXCEPT !.rawExtractedText = c.op.fullText], "success",
                        Status("success", "Texto da imagem extraido", "")))

\* ocrImageFile(file) up to its first await: createWorker is called
ImageStart(c) ==
    [SetProcessingProgress(SetProcessingMessage(c, <<"Processando Imagem (OCR)">>), Num(0))
        EXCEPT !.op.pc = "createWorker"]

\* ---------------------------------------------------------- ocrPdfDocument

\* a finally block that releases the worker once more
PdfFinally_TerminatesAgain(c, pc) ==
    EndOfFunction(
        [SetProcessingProgress(SetProcessingMessage(c, EmptyMessage), Num(0))
            EXCEPT !.isLoading = FALSE, !.ref = RefReset,
                   !.worker.terminateCalls = IF c.worker.created > 0 THEN @ + 1 ELSE @],
        pc)

\* finally { ...; ocrPageProgressDataRef.current = {0, 0, 0, 0} }
PdfFinally(c, pc) ==
    EndOfFunction(
        [SetProcessingProgress(SetProcessingMessage(c, EmptyMessage), Num(0))
            EXCEPT !.isLoading = FALSE, !.ref = RefReset],
        pc)

\* a catch block that forgets the worker
PdfCatchTerminates_Never(c) == FALSE

\* a catch block that calls terminate() whether or not a worker exists
PdfCatchTerminates_Always(c) == TRUE

\* if (tesseractWorker) ...
PdfCatchTerminates(c) == c.op.tesseractWorker

\* a catch block that publishes the text of the pages recognized so far
PdfCatch_PublishesPartial(c, detail) ==
    LET c1 == SetOutcome([c EXCEPT !.rawExtractedText = Trim(c.op.fullText)], "failed",
                         Status("error", "Falha ao processar PDF com OCR", detail))
    IN IF PdfCatchTerminates(c1)
       THEN CallTerminate(c1, "catchTerminate")
       ELSE PdfFinally(c1, "done")

\* catch (error) { ... }
PdfCatch(c, detail) ==
    LET c1 == SetOutcome([c EXCEPT !.rawExtractedText = <<>>], "failed",
                         Status("error", "Falha ao processar PDF com OCR", detail))
    IN IF PdfCatchTerminates(c1)
       THEN CallTerminate(c1, "catchTerminate")
       ELSE PdfFinally(c1, "done")

\* the outcome published after the worker was terminated
PdfClassify(c) ==
    IF Trim(c.op.fullText) = <<>>
    THEN SetOutcome([c EXCEPT !.rawExtractedText = <<>>], "empty",
                    Status("warning", "OCR do PDF concluido, nenhum texto", ""))
    ELSE ClearStatusMessageAfterDelay(
             SetOutcome([c EXCEPT !.rawExtractedText = Trim(c.op.fullText)], "success",
                        Status("success", "Texto do PDF extraido", "")))

\* ocrPdfDocument(file) up to its first await: file.arrayBuffer() is called
PdfStart(c) ==
    [SetProcessingProgress(
         SetProcessingMessage(c, <<"Iniciando processamento OCR do PDF">>), Num(0))
        EXCEPT !.op.pc = "arrayBuffer"]

\* a budget that is not divided among the pages
PdfInitRef_WholeBudget(c) ==
    [c EXCEPT !.ref = [currentPage |-> 0,
                       totalPages |-> c.op.numPages,
                       baseProgress |-> Num(0),
                       pageBudget |-> Num(100)]]

\* ocrPageProgressDataRef.current = { ... } once the document is parsed
PdfInitRef(c) ==
    [c EXCEPT !.ref = [currentPage |-> 0,
                       totalPages |-> c.op.numPages,
                       baseProgress |-> Num(0),
                       pageBudget |-> <<100, c.op.numPages>>]]

\* a loop body that does not clean up the page
PageCleanup_Skipped(c) == c

\* page.cleanup()
PageCleanup(c) == [c EXCEPT !.page.held = @ \ {c.op.i}]

\* a loop body that joins the page texts with no separator
AppendPageText_NoSeparator(c, text) == [c EXCEPT !.op.fullText = @ \o text]

\* fullText += pageText + "\n"
AppendPageText(c, text) == [c EXCEPT !.op.fullText = @ \o text \o <<"\n">>]

\* a pipeline that publishes the outcome and only then releases the worker
PdfAfterLoop_ClassifyFirst(c) == CallTerminate(PdfClassify(c), "terminate")

\* await tesseractWorker.terminate() is called once the loop is over
PdfAfterLoop(c) == CallTerminate(c, "terminate")

\* a loop that does not record the page in work in the ref
PdfLoop_StalePage(c, i) ==
    IF i <= c.op.numPages
    THEN LET c1 == [c EXCEPT !.op.i = i]
             c2 == SetProcessingMessage(c1, <<"Renderizando pagina", i, c.op.numPages>>)
             c3 == SetProcessingProgress(c2,
                       MathRound(Add(c2.ref.baseProgress, Mul(<<1, 10>>, c2.ref.pageBudget))))
         IN [c3 EXCEPT !.op.pc = "getPage"]
    ELSE PdfAfterLoop(c)

\* the head of the loop for (let i = 1; i <= pdfDoc.numPages; i++), entered with i:
\* the render-step progress and getPage(i), or, past the last page, terminate()
PdfLoop(c, i) ==
    IF i <= c.op.numPages
    THEN LET c1 == [c EXCEPT !.ref.currentPage = i,
                             !.ref.baseProgress = <<(i - 1) * 100, c.op.numPages>>,
                             !.op.i = i]
             c2 == SetProcessingMessage(c1, <<"Renderizando pagina", i, c.op.numPages>>)
             c3 == SetProcessingProgress(c2,
                       MathRound(Add(c2.ref.baseProgress, Mul(<<1, 10>>, c2.ref.pageBudget))))
         IN [c3 EXCEPT !.op.pc = "getPage"]
    ELSE PdfAfterLoop(c)

\* ---------------------------------------------------------------- actions

\* the operations in flight are marked as cancelled by cause (an observation:
\* the code keeps no such mark and has no cancellation)
MarkCancelled(cause) ==
    [o \in OpIds |->
        IF InFlight(o) THEN [obs[o] EXCEPT !.cancelled = @ \cup {cause}] ELSE obs[o]]

\* an else branch that leaves the loading flag set
RejectUnsupported_KeepsLoading(c) ==
    [ClearStatusMessageAfterDelay(c) EXCEPT
        !.statusMessage = Status("warning", "Tipo de arquivo nao suportado", ""),
        !.op.pc = "unsupported"]

\* else { ... }: the file is neither a PDF nor an image
RejectUnsupported(c) ==
    [ClearStatusMessageAfterDelay(c) EXCEPT
        !.statusMessage = Status("warning", "Tipo de arquivo nao suportado", ""),
        !.isLoading = FALSE,
        !.op.pc = "unsupported"]

\* handleFile(selectedFile) with a file of type t (a PDF of n pages), called
\* from onFileChange (via "change": the handlers of the latest render) or from
\* onDrop (via "drop": useCallback(..., []) keeps the handlers of the first
\* render, whose processingMessage is '')
HandleFile(t, n, via) ==
    /\ nextOp < MaxOps
    /\ LET o == nextOp + 1
           c0 == [Cx(o) EXCEPT
                    !.op = [IdleOp EXCEPT !.type = t, !.numPages = n,
                              !.closureMessage =
                                  IF via = "drop" THEN EmptyMessage ELSE processingMessage],
                    !.isLoading = TRUE,
                    !.rawExtractedText = <<>>,
                    !.statusMessage = Status("info", "Carregando arquivo", ""),
                    !.timers = @ + 1]
       IN /\ nextOp' = o
          /\ CASE t = "pdf" ->
                    /\ currentFile' = o
                    /\ CommitFrom(o, PdfStart(c0), MarkCancelled("replace"))
               [] t = "image" ->
                    /\ currentFile' = o
                    /\ CommitFrom(o, ImageStart(c0), MarkCancelled("replace"))
               [] OTHER ->
                    /\ currentFile' = NoOp
                    /\ Commit(o, RejectUnsupported(c0))

\* removeFile(): the button is rendered only while currentFile is set
RemoveFile ==
    /\ currentFile # NoOp
    /\ currentFile' = NoOp
    /\ rawExtractedText' = <<>>
    /\ statusMessage' = Status("info", "Arquivo removido", "")
    /\ timers' = timers + 1
    /\ obs' = MarkCancelled("remove")
    /\ UNCHANGED <<isLoading, processingProgress, processingMessage,
                   ocrPageProgressDataRef, nextOp, op, worker, page>>
    /\ UNCHANGED others

\* a timer of clearStatusMessageAfterDelay fires: setStatusMessage(null)
TimerFire ==
    /\ timers > 0
    /\ timers' = timers - 1
    /\ statusMessage' = NullStatus
    /\ UNCHANGED <<isLoading, currentFile, rawExtractedText, processingProgress,
                   processingMessage, ocrPageProgressDataRef, nextOp, op, worker,
                   page, obs>>
    /\ UNCHANGED others

\* an operation's step changes neither the file held nor the count of uploads
OpStep(o, c) == Commit(o, c) /\ UNCHANGED <<currentFile, nextOp>>

Catch(c, detail) == IF c.op.type = "pdf" THEN PdfCatch(c, detail) ELSE ImageCatch(c, detail)

\* await file.arrayBuffer() settles
ArrayBufferDone(o, ok) ==
    /\ op[o].pc = "arrayBuffer"
    /\ OpStep(o, IF ok THEN [Cx(o) EXCEPT !.op.pc = "getDocument"]
                 ELSE PdfCatch(Cx(o), "arrayBuffer"))

\* await pdfjsLib.getDocument(fileBuffer).promise settles; createWorker is called
GetDocumentDone(o, ok) ==
    /\ op[o].pc = "getDocument"
    /\ OpStep(o, IF ok THEN [PdfInitRef(Cx(o)) EXCEPT !.op.pc = "createWorker"]
                 ELSE PdfCatch(Cx(o), "getDocument"))

\* await initializeTesseractWorker(logger) settles
CreateWorkerDone(o, ok) ==
    /\ op[o].pc = "createWorker"
    /\ LET c1 == [Cx(o) EXCEPT !.op.tesseractWorker = TRUE,
                    !.worker.state = "alive", !.worker.created = @ + 1]
       IN OpStep(o, IF ~ok THEN Catch(Cx(o), "createWorker")
                    ELSE IF op[o].type = "pdf" THEN PdfLoop(c1, 1)
                    ELSE [c1 EXCEPT !.op.pc = "recognize"])

\* await pdfDoc.getPage(i) settles; canvas.getContext('2d') gives a context or
\* null; page.render is called
GetPageDone(o, ok, context) ==
    /\ op[o].pc = "getPage"
    /\ LET c1 == [Cx(o) EXCEPT !.page.held = @ \cup {op[o].i}]
       IN OpStep(o, IF ~ok THEN PdfCatch(Cx(o), "getPage")
                    ELSE IF ~context THEN PdfCatch(c1, "getContext")
                    ELSE [c1 EXCEPT !.op.pc = "render"])

\* await page.render(...).promise settles; tesseractWorker.recognize is called
RenderDone(o, ok) ==
    /\ op[o].pc = "render"
    /\ OpStep(o, IF ~ok THEN PdfCatch(Cx(o), "render")
                 ELSE [SetProcessingMessage(Cx(o),
                          <<"Analisando pagina com OCR", op[o].i, op[o].numPages>>)
                       EXCEPT !.op.pc = "recognize"])

\* await worker.recognize(...) settles with the recognized text
RecognizeDone(o, ok, text) ==
    /\ op[o].pc = "recognize"
    /\ LET c1 == [Cx(o) EXCEPT !.obs.texts = Append(@, text)]
       IN OpStep(o, IF ~ok THEN Catch(Cx(o), "recognize")
                    ELSE IF op[o].type = "pdf"
                    THEN PdfLoop(PageCleanup(AppendPageText(c1, text)), op[o].i + 1)
                    ELSE CallTerminate([c1 EXCEPT !.op.fullText = text], "terminate"))

\* await worker.terminate() of the success path settles
TerminateDone(o, ok) ==
    /\ op[o].pc = "terminate"
    /\ LET c1 == [Cx(o) EXCEPT !.worker.state = "terminated",
                               !.op.tesseractWorker = FALSE]
       IN OpStep(o, IF ~ok THEN Catch(Cx(o), "terminate")
                    ELSE IF op[o].type = "pdf" THEN PdfFinally(PdfClassify(c1), "done")
                    ELSE ImageFinally(ImageClassify(c1), "done"))

\* await worker.terminate() of the catch block settles; when it rejects, the
\* finally block runs and the async function's promise is rejected
CatchTerminateDone(o, ok) ==
    /\ op[o].pc = "catchTerminate"
    /\ LET c1 == IF ok THEN [Cx(o) EXCEPT !.worker.state = "terminated"] ELSE Cx(o)
           pc == IF ok THEN "done" ELSE "rejected"
       IN OpStep(o, IF op[o].type = "pdf" THEN PdfFinally(c1, pc)
                    ELSE ImageFinally(c1, pc))

\* the worker of operation o calls the logger it was created with; the engine
\* reports "recognizing text" only while a recognize call is pending
Logger(o, status, progress) ==
    /\ op[o].pc \in {"createWorker", "recognize"}
    /\ status = "recognizing text" => op[o].pc = "recognize"
    /\ LET m == [status |-> status, progress |-> progress]
       IN OpStep(o, IF op[o].type = "pdf" THEN PageAwarePdfOcrLogger(Cx(o), m)
                    ELSE ImageOcrLogger(Cx(o), m))

\* the call operation o awaits settles (ok: it resolves, otherwise it rejects)
\* and the operation runs to its next await; recognize returns a text of texts
Settles(o, ok, texts) ==
    \/ ArrayBufferDone(o, ok)
    \/ GetDocumentDone(o, ok)
    \/ CreateWorkerDone(o, ok)
    \/ \E context \in BOOLEAN : GetPageDone(o, ok, context)
    \/ RenderDone(o, ok)
    \/ \E text \in texts : RecognizeDone(o, ok, text)
    \/ TerminateDone(o, ok)
    \/ CatchTerminateDone(o, ok)

\* one of the operations resumes from the await it is suspended at
OperationStep ==
    \E o \in OpIds, ok \in BOOLEAN : Settles(o, ok, PageTexts)

\* a worker reports progress to its logger
LoggerEvent ==
    \E o \in OpIds, status \in Statuses, progress \in Fractions \cup {Undefined} :
        Logger(o, status, progress)

\* the files handleFile may be given: a type, and for a PDF its page count
Files == { <<"pdf", n>> : n \in 0 .. MaxPages } \cup { <<"image", 0>>, <<"other", 0>> }

\* One upload and all that follows it: every outcome of every awaited call,
\* every logger event, removeFile and the status timers.
Upload ==
    /\ nextOp = 0
    /\ \E f \in Files, via \in {"change", "drop"} : HandleFile(f[1], f[2], via)

Next ==
    \/ Upload
    \/ RemoveFile
    \/ TimerFire
    \/ OperationStep
    \/ LoggerEvent

Spec == Init /\ [][Next]_vars

\* Up to MaxOps uploads by drag and drop, each possibly started while the
\* operations of the earlier ones are still in flight; the engine reports no
\* progress, so that the interleavings of the operations stay enumerable.
OverlappingUpload ==
    \E f \in Files : HandleFile(f[1], f[2], "drop")

NextConcurrent ==
    \/ OverlappingUpload
    \/ RemoveFile
    \/ TimerFire
    \/ OperationStep

SpecConcurrent == Init /\ [][NextConcurrent]_vars

\* Spec, where every call an operation awaits settles in the end: a promise of
\* the browser, of pdf.js or of Tesseract is resolved or rejected.
Resume(o) == \E ok \in BOOLEAN : Settles(o, ok, PageTexts)

SpecLive == Spec /\ \A o \in OpIds : WF_vars(Resume(o))

\* the texts recognize returns where the text matters: empty, white space only,
\* with white space before, after and inside, and with distinct letters
SampleTexts == { <<>>, <<" ">>, <<"A">>, <<"B">>, <<" ", "A">>, <<"A", " ">>,
                 <<"A", " ", "B">> }

\* every awaited call resolves
Resolves(texts) == \E o \in OpIds : Settles(o, TRUE, texts)

\* One upload whose calls all resolve, the engine silent: what is published as
\* a function of the texts recognized.
NextText ==
    \/ Upload
    \/ Resolves(SampleTexts)

SpecText == Init /\ [][NextText]_vars

\* One image, or one PDF of up to MaxProgressPages pages, whose calls all
\* resolve, the engine reporting the fractions k / ProgressGrid of each
\* recognition: the progress shown as a function of the page and the fraction.
MaxProgressPages == 4
ProgressGrid == 10
\* the fractions 0.4, 0.5 and 0.25, whatever the grid
ScenarioFractions == { <<2, 5>>, <<1, 2>>, <<1, 4>> }
ProgressFractions ==
    { <<k, ProgressGrid>> : k \in 0 .. ProgressGrid } \cup ScenarioFractions

UploadPdf ==
    /\ nextOp = 0
    /\ \E n \in 1 .. MaxProgressPages : HandleFile("pdf", n, "change")

RecognizingEvent ==
    \E o \in OpIds, progress \in ProgressFractions :
        Logger(o, "recognizing text", progress)

UploadImage ==
    /\ nextOp = 0
    /\ HandleFile("image", 0, "change")

NextProgress ==
    \/ UploadPdf
    \/ UploadImage
    \/ Resolves({ <<"A">> })
    \/ RecognizingEvent

SpecProgress == Init /\ [][NextProgress]_vars

\* SpecProgress with an engine that also reports progress numbers outside
\* [0, 1]: m.progress is typed number and the loggers do not check its range.
OutOfRangeFractions == { <<0 - 1, ProgressGrid>>, <<ProgressGrid + 1, ProgressGrid>>,
                         <<3 * ProgressGrid, ProgressGrid>> }

OutOfRangeEvent ==
    \E o \in OpIds, progress \in OutOfRangeFractions :
        Logger(o, "recognizing text", progress)

NextAnyProgress ==
    \/ NextProgress
    \/ OutOfRangeEvent

SpecAnyProgress == Init /\ [][NextAnyProgress]_vars

\* ----------------------------------------------------------------- claims

\* a <= b as JavaScript compares numbers (false when either is NaN)
Leq(a, b) ==
    IF IsNaN(a) \/ IsNaN(b) THEN FALSE
    ELSE IF IsInf(b) THEN TRUE
    ELSE IF IsInf(a) THEN FALSE
    ELSE a[1] * b[2] <= b[1] * a[2]

WorkersAlive == { o \in OpIds : worker[o].state = "alive" }
OperationsInFlight == { o \in OpIds : InFlight(o) }

\* C1: within one operation the values written to the progress display (by
\* the render step of each page and by the recognition logger) never decrease
\* while the operation is in flight.
C1_ProgressNeverDecreases ==
    [][\A o \in OpIds :
          (InFlight(o) /\ InFlight(o)') =>
              Leq(obs[o].lastProgress, obs'[o].lastProgress)]_vars

\* C2: at most one Tesseract worker is alive (created and not yet terminated)
\* at any time, whatever uploads and removals happen.
C2_AtMostOneWorkerAlive == Cardinality(WorkersAlive) <= 1

\* C3: a new upload cancels the operation of the previous one, so at most one
\* OCR operation is in flight at any time.
C3_AtMostOneOperationInFlight == Cardinality(OperationsInFlight) <= 1

\* C4: an operation that was in flight when the user removed the document
\* publishes no outcome afterwards and does not write rawExtractedText.
C4_NoOutcomeAfterRemove ==
    [][\A o \in OpIds :
          ("remove" \in obs[o].cancelled /\ op'[o] # op[o]) =>
              /\ obs'[o].outcome = obs[o].outcome
              /\ rawExtractedText' = rawExtractedText]_vars

\* C5: a cancelled operation (document removed, or replaced by a new upload)
\* starts no further getPage, render or recognize call and discards the result
\* of the recognition that was pending.
C5_NoWorkAfterCancel ==
    [][\A o \in OpIds :
          (obs[o].cancelled # {} /\ op'[o] # op[o]) =>
              /\ op'[o].pc \notin {"getPage", "render", "recognize"}
              /\ InFlight(o)' => op'[o].fullText = op[o].fullText]_vars

\* C6: when an operation has finished, on any path, terminate() has been
\* called on every worker it created.
C6_CreatedWorkerTerminateCalled ==
    \A o \in OpIds :
        (Finished(o) /\ worker[o].created > 0) => worker[o].terminateCalls >= 1

\* an operation that failed with a live worker has finished
C6_Witness ==
    \E o \in OpIds :
        /\ Finished(o)
        /\ obs[o].outcome = "failed"
        /\ worker[o].created = 1
        /\ worker[o].terminateCalls >= 1

\* C7: an operation creates at most one worker and calls terminate() on it
\* exactly once, whatever the outcome.
C7_TerminateExactlyOnce ==
    \A o \in OpIds :
        Finished(o) =>
            /\ worker[o].created <= 1
            /\ worker[o].created = 1 => worker[o].terminateCalls = 1

\* C8: when an operation's outcome (success, warning or error status) is
\* published, the worker it created has already been terminated.
C8_TerminatedBeforeOutcome ==
    \A o \in OpIds :
        (obs[o].outcome # "none" /\ worker[o].created > 0) =>
            worker[o].state = "terminated"

\* C9: a finished PDF operation holds no page: the page obtained by getPage(i)
\* is cleaned up also when its rendering or recognition failed.
C9_NoPageHeldAfterFinish ==
    \A o \in OpIds : Finished(o) => page[o].held = {}

\* C10: pages are processed in index order, one at a time: getPage(1) follows
\* the creation of the worker, getPage(i + 1) follows the recognition of page
\* i, no page is held when a getPage call starts, and while page i is rendered
\* or recognized it is the only page held.
C10_PagesInOrderOneAtATime ==
    [][\A o \in OpIds :
          /\ Cardinality(page'[o].held) <= 1
          /\ (op'[o].pc = "getPage" /\ op[o].pc # "getPage") =>
                /\ op[o].pc \in {"createWorker", "recognize"}
                /\ op'[o].i = (IF op[o].pc = "createWorker" THEN 1 ELSE op[o].i + 1)
                /\ page'[o].held = {}
          /\ (op'[o].type = "pdf" /\ op'[o].pc \in {"render", "recognize"}) =>
                page'[o].held = {op'[o].i}]_vars

\* the second page is being recognized and is the only page held
C10_Witness ==
    \E o \in OpIds :
        /\ op[o].pc = "recognize"
        /\ op[o].i = 2
        /\ page[o].held = {2}

\* C11: a PDF whose parsed document reports numPages = 0 fails: once it is
\* parsed the operation has the failed outcome, the page budget 100 / numPages
\* is never evaluated, and the operation never ends as "empty" or "success".
C11_EmptyDocumentFails ==
    \A o \in OpIds :
        (op[o].type = "pdf" /\ op[o].numPages = 0) =>
            /\ obs[o].outcome \notin {"empty", "success"}
            /\ op[o].pc \notin {"idle", "arrayBuffer", "getDocument"} =>
                  obs[o].outcome = "failed"
            /\ ~IsInf(ocrPageProgressDataRef.pageBudget)

\* C12: for a file that is neither a PDF nor an image, handleFile ends in a
\* rejection without allocating anything: the call starts no operation (no
\* PDF is parsed), no worker is ever created and no page obtained for it, and
\* when it returns isLoading is false and currentFile is null.
C12_UnsupportedAllocatesNothing ==
    [][\A o \in OpIds :
          op'[o].type = "other" =>
              /\ op'[o].pc = "unsupported"
              /\ worker'[o] = NoWorker
              /\ page'[o] = NoPages
              /\ obs'[o].outcome = "none"
              /\ op[o].type # "other" =>
                    /\ isLoading' = FALSE
                    /\ currentFile' = NoOp
                    /\ statusMessage'.type = "warning"]_vars

C12_Witness ==
    \E o \in OpIds :
        /\ op[o].type = "other"
        /\ op[o].pc = "unsupported"
        /\ isLoading = FALSE
        /\ currentFile = NoOp

\* C13: when file.arrayBuffer() or getDocument rejects, the operation ends
\* there with the failed outcome (an error status), and no Tesseract worker
\* was created for it.
C13_ParseFailureNoWorker ==
    [][\A o \in OpIds :
          (/\ op[o].pc \in {"arrayBuffer", "getDocument"}
           /\ op'[o].pc \notin {"arrayBuffer", "getDocument", "createWorker"}) =>
              /\ op'[o].pc = "done"
              /\ obs'[o].outcome = "failed"
              /\ statusMessage'.type = "error"
              /\ statusMessage'.detail = op[o].pc
              /\ worker'[o] = NoWorker]_vars

C13_Witness ==
    \E o \in OpIds :
        /\ statusMessage.detail = "getDocument"
        /\ op[o].pc = "done"
        /\ obs[o].outcome = "failed"
        /\ worker[o] = NoWorker

\* the positions of s that hold a character other than white space
NonSpace(s) == { k \in 1 .. Len(s) : s[k] \notin {" ", "\n"} }

\* s from its first to its last character that is not white space
Stripped(s) ==
    IF NonSpace(s) = {} THEN <<>>
    ELSE LET first == CHOOSE k \in NonSpace(s) : \A j \in NonSpace(s) : k <= j
             last == CHOOSE k \in NonSpace(s) : \A j \in NonSpace(s) : j <= k
         IN SubSeq(s, first, last)

\* C14: on the PDF and on the image path, when the worker has been released
\* and the outcome is classified: accumulated text that is empty or white
\* space only gives the "empty" outcome (a warning status, rawExtractedText
\* ''); any other text gives "success" and rawExtractedText is the accumulated
\* text without its leading and trailing white space, the rest unchanged.
C14_OutcomeClassification ==
    [][\A o \in OpIds :
          (op[o].pc = "terminate" /\ op'[o].pc = "done") =>
              IF NonSpace(op[o].fullText) = {}
              THEN /\ obs'[o].outcome = "empty"
                   /\ statusMessage'.type = "warning"
                   /\ rawExtractedText' = <<>>
              ELSE /\ obs'[o].outcome = "success"
                   /\ statusMessage'.type = "success"
                   /\ rawExtractedText' = Stripped(op[o].fullText)]_vars

\* t1 + newline + t2 + newline + ... + tN + newline
RECURSIVE JoinPages(_)
JoinPages(ts) ==
    IF ts = <<>> THEN <<>> ELSE ts[1] \o <<"\n">> \o JoinPages(Tail(ts))

\* C15: a PDF whose pages 1..N are recognized as t1..tN publishes
\* trim(t1 + newline + ... + tN + newline): while page i is in work the text
\* accumulated is that of pages 1..i-1, each once and in page order, and the
\* text published at the end is the trimmed join of all N.
C15_PagesJoinedInOrder ==
    [][\A o \in OpIds :
          op[o].type = "pdf" =>
              /\ op'[o].pc \in {"getPage", "render", "recognize"} =>
                    /\ Len(obs'[o].texts) = op'[o].i - 1
                    /\ op'[o].fullText = JoinPages(obs'[o].texts)
              /\ (op[o].pc = "terminate" /\ op'[o].pc = "done") =>
                    /\ Len(obs[o].texts) = op[o].numPages
                    /\ obs'[o].outcome \in {"success", "empty"}
                    /\ rawExtractedText' = Stripped(JoinPages(obs[o].texts))]_vars

\* two pages "A" and "B" have given "A", newline, "B"
C15_Witness ==
    \E o \in OpIds :
        /\ op[o].type = "pdf"
        /\ op[o].numPages = 2
        /\ op[o].pc = "done"
        /\ obs[o].outcome = "success"
        /\ rawExtractedText = <<"A", "\n", "B">>

\* the awaited calls of parsing, worker creation, rasterization and recognition
ThrowingCalls == {"arrayBuffer", "getDocument", "createWorker", "getPage", "render",
                  "recognize"}

\* C16: an exception raised by parsing, rasterization, worker creation or
\* recognition is caught in the operation and becomes the failed outcome: an
\* error status carrying the error's message, rawExtractedText '', and the
\* operation emits no "success" or "empty" outcome afterwards.
C16_ExceptionsBecomeFailed ==
    [][\A o \in OpIds :
          /\ (/\ op[o].pc \in ThrowingCalls
              /\ op'[o].pc \in {"catchTerminate", "done", "rejected"}) =>
                 /\ obs'[o].outcome = "failed"
                 /\ statusMessage'.type = "error"
                 /\ statusMessage'.detail \in
                       IF op[o].pc = "getPage" THEN {"getPage", "getContext"}
                       ELSE {op[o].pc}
                 /\ rawExtractedText' = <<>>
          /\ obs[o].outcome = "failed" => obs'[o].outcome = "failed"]_vars

C16_Witness ==
    \E o \in OpIds :
        /\ op[o].type = "image"
        /\ op[o].pc = "catchTerminate"
        /\ obs[o].outcome = "failed"
        /\ statusMessage = Status("error", "Falha ao processar imagem com OCR", "recognize")
        /\ rawExtractedText = <<>>

\* C17: when a page of a PDF fails to be fetched, rendered or recognized the
\* document is abandoned: the operation goes on to no further getPage, render
\* or recognize, obtains no further page, and what it publishes is the empty
\* text, not the text of the pages recognized before.
C17_AbortOnPageFailure ==
    [][\A o \in OpIds :
          op[o].type = "pdf" =>
              /\ (/\ op[o].pc \in {"getPage", "render", "recognize"}
                  /\ op'[o].pc \notin {"getPage", "render", "recognize", "terminate"}) =>
                     /\ obs'[o].outcome = "failed"
                     /\ op'[o].pc \in {"catchTerminate", "done"}
              /\ obs[o].outcome = "failed" =>
                     /\ op'[o].pc \in {"catchTerminate", "done", "rejected"}
                     /\ page'[o].held \subseteq page[o].held
                     /\ obs'[o].texts = <<>> \/ obs'[o].texts = obs[o].texts
              /\ obs'[o].outcome = "failed" => rawExtractedText' = <<>>]_vars

\* page 2 of 2 failed after page 1 was recognized with text
C17_Witness ==
    \E o \in OpIds :
        /\ op[o].type = "pdf"
        /\ op[o].pc = "catchTerminate"
        /\ op[o].i = 2
        /\ NonSpace(op[o].fullText) # {}
        /\ obs[o].outcome = "failed"
        /\ rawExtractedText = <<>>

\* C18: an operation that was started emits exactly one outcome (success, the
\* "empty" warning or the error): none while it still parses, renders,
\* recognizes or awaits the terminate() of the success path; one by the time it
\* has ended; and once emitted the outcome does not change and the operation
\* publishes no other status.
C18_ExactlyOneOutcome ==
    [][\A o \in OpIds :
          /\ obs'[o].outcome # "none" =>
                op'[o].pc \in {"catchTerminate", "done", "rejected"}
          /\ op'[o].pc \in {"done", "rejected"} =>
                obs'[o].outcome \in {"success", "empty", "failed"}
          /\ obs[o].outcome # "none" =>
                /\ obs'[o].outcome = obs[o].outcome
                /\ op'[o] # op[o] => statusMessage' = statusMessage]_vars

C18_Witness ==
    \E o \in OpIds :
        /\ op[o].pc = "done"
        /\ obs[o].outcome = "success"
        /\ worker[o].state = "terminated"
        /\ statusMessage.type = "success"

\* C19: every operation handleFile starts on a PDF or an image, each call it
\* awaits settling in the end, eventually has emitted one of the outcomes
\* success, empty or failed and has ended, with isLoading false, the progress
\* 0 and the processing message ''.
C19_EveryOperationEnds ==
    \A o \in OpIds :
        InFlight(o) ~>
            /\ Finished(o)
            /\ obs[o].outcome \in {"success", "empty", "failed"}
            /\ isLoading = FALSE
            /\ processingProgress = Num(0)
            /\ processingMessage = EmptyMessage

C19_Witness ==
    \E o \in OpIds :
        /\ op[o].type = "image"
        /\ Finished(o)
        /\ obs[o].outcome = "empty"
        /\ isLoading = FALSE
        /\ processingProgress = Num(0)
        /\ processingMessage = EmptyMessage

\* min(100, round(((i - 1) / N) * 100 + f * (100 / N)))
OverallProgress(N, i, f) ==
    Min100(MathRound(Add(<<(i - 1) * 100, N>>, Mul(f, <<100, N>>))))

\* C20: for a PDF of N >= 1 pages, when the worker reports the fraction f while
\* page i is being recognized, the progress pageAwarePdfOcrLogger emits is
\* min(100, round(baseProgress + f * (100 / N))), baseProgress being
\* ((i - 1) / N) * 100.
C20_OverallProgressFormula ==
    [][\A o \in OpIds, f \in ProgressFractions :
          (/\ op[o].type = "pdf"
           /\ op[o].pc = "recognize"
           /\ op'[o] = op[o]
           /\ processingMessage' = <<"Analisando pagina (Progresso OCR)", op[o].i,
                                     op[o].numPages, Percent(f)>>) =>
              processingProgress' = OverallProgress(op[o].numPages, op[o].i, f)]_vars

\* a = b for two finite numbers
EqNum(a, b) == IsFinite(a) /\ IsFinite(b) /\ a[1] * b[2] = b[1] * a[2]

\* the operation is in the loop over the pages, at page op[o].i
InLoop(o) == op[o].type = "pdf" /\ op[o].pc \in {"getPage", "render", "recognize"}

\* round((i - 1) / N * 100)
RoundedBase(N, i) == MathRound(<<(i - 1) * 100, N>>)

\* C21: for a PDF of N pages, the base progress in effect while page i is in
\* work is round((i - 1) / N * 100) exactly, and the budgets partition the
\* range: the base of page i plus the page budget is the base of page i + 1,
\* and the base of page N plus the budget is 100.
C21_BasesPartitionRange ==
    \A o \in OpIds :
        InLoop(o) =>
            LET N == op[o].numPages
                i == op[o].i
                base == ocrPageProgressDataRef.baseProgress
                budget == ocrPageProgressDataRef.pageBudget
            IN /\ EqNum(base, RoundedBase(N, i))
               /\ EqNum(Add(base, budget),
                        IF i < N THEN RoundedBase(N, i + 1) ELSE Num(100))

\* round(f * 100) for the fraction f = f[1] / f[2]
RoundPercent(f) == Num((200 * f[1] + f[2]) \div (2 * f[2]))

\* C22: for an image, and for a PDF of one page, the progress emitted for a
\* reported recognition fraction f is round(f * 100).
C22_SinglePageProgress ==
    [][\A o \in OpIds, f \in ProgressFractions :
          /\ (/\ op[o].type = "image"
              /\ op[o].pc = "recognize"
              /\ op'[o] = op[o]
              /\ processingMessage' = <<"Reconhecendo texto", RoundPercent(f)[1]>>) =>
                 processingProgress' = RoundPercent(f)
          /\ (/\ op[o].type = "pdf"
              /\ op[o].numPages = 1
              /\ op[o].pc = "recognize"
              /\ op'[o] = op[o]
              /\ processingMessage' = <<"Analisando pagina (Progresso OCR)", 1, 1,
                                        RoundPercent(f)[1]>>) =>
                 processingProgress' = RoundPercent(f)]_vars

\* a one-page PDF whose worker reported 0.4 shows 40
C22_Witness ==
    \E o \in OpIds :
        /\ op[o].type = "pdf"
        /\ op[o].numPages = 1
        /\ op[o].pc = "recognize"
        /\ processingMessage = <<"Analisando pagina (Progresso OCR)", 1, 1, 40>>
        /\ processingProgress = Num(40)

\* C23: for a PDF of 3 pages, when the worker reports the fraction 0.5 while
\* page 2 is being recognized, the progress emitted is 50.
C23_ThreePagesSecondHalf ==
    [][\A o \in OpIds :
          (/\ op[o].type = "pdf"
           /\ op[o].numPages = 3
           /\ op[o].i = 2
           /\ op[o].pc = "recognize"
           /\ op'[o] = op[o]
           /\ processingMessage' = <<"Analisando pagina (Progresso OCR)", 2, 3, 50>>) =>
              processingProgress' = Num(50)]_vars

C23_Witness ==
    \E o \in OpIds :
        /\ op[o].type = "pdf"
        /\ op[o].numPages = 3
        /\ op[o].i = 2
        /\ op[o].pc = "recognize"
        /\ processingMessage = <<"Analisando pagina (Progresso OCR)", 2, 3, 50>>
        /\ processingProgress = Num(50)

\* C24: every progress value emitted, on the PDF and on the image path, lies
\* in [0, 100], whatever progress number the engine reports in a "recognizing
\* text" event (also below 0 or above 1) and whatever the page count.
C24_ProgressWithinRange ==
    /\ Leq(Num(0), processingProgress)
    /\ Leq(processingProgress, Num(100))
    /\ \A o \in OpIds :
          /\ Leq(Num(0), obs[o].lastProgress)
          /\ Leq(obs[o].lastProgress, Num(100))

\* m is a "recognizing text" progress message of either logger
IsRecognizingMessage(m) ==
    m[1] \in {"Reconhecendo texto", "Analisando pagina (Progresso OCR)"}

\* C25: within one page (or image), once a "recognizing text" progress
\* message is displayed, a later event with another status does not replace
\* it: while the recognize call is pending the message displayed stays a
\* recognizing-text progress message.
C25_RecognizingMessageKept ==
    [][\A o \in OpIds :
          (/\ op[o].pc = "recognize"
           /\ op'[o] = op[o]
           /\ IsRecognizingMessage(processingMessage)) =>
              IsRecognizingMessage(processingMessage')]_vars

\* the processing messages that name a page, at position 2
PageTags == {"Renderizando pagina", "Analisando pagina com OCR",
             "Analisando pagina (Progresso OCR)", "Inicializando OCR para pagina",
             "Status OCR pag."}

\* C26: within one PDF operation the updates of different pages do not
\* interleave: the page in work only advances, by one page at a time, and
\* every update made while page i is in work is attributed to page i (the
\* message names page i, and the logger computes with page i's base).
C26_PageUpdatesInOrder ==
    [][\A o \in OpIds :
          (op'[o].type = "pdf" /\ op'[o].pc \in {"getPage", "render", "recognize"}) =>
              /\ InLoop(o) => op'[o].i \in {op[o].i, op[o].i + 1}
              /\ ~InLoop(o) => op'[o].i = 1
              /\ ocrPageProgressDataRef'.currentPage = op'[o].i
              /\ EqNum(ocrPageProgressDataRef'.baseProgress,
                       <<(op'[o].i - 1) * 100, op'[o].numPages>>)
              /\ processingMessage'[1] \in PageTags =>
                    processingMessage'[2] = op'[o].i]_vars

\* page 2 of 2 is being recognized and its progress is shown
C26_Witness ==
    \E o \in OpIds :
        /\ InLoop(o)
        /\ op[o].numPages = 2
        /\ op[o].i = 2
        /\ op[o].pc = "recognize"
        /\ processingMessage = <<"Analisando pagina (Progresso OCR)", 2, 2, 50>>
        /\ processingProgress = Num(75)

\* how far the operation with locals r has come: its awaits in program order
\* (the loop's three awaits once per page), then the release and the end
PositionOf(r) ==
    CASE r.pc = "idle" -> 0
      [] r.pc = "arrayBuffer" -> 1
      [] r.pc = "getDocument" -> 2
      [] r.pc = "createWorker" -> 3
      [] r.pc = "getPage" -> 3 * (r.i + 1) + 1
      [] r.pc = "render" -> 3 * (r.i + 1) + 2
      [] r.pc = "recognize" -> 3 * (r.i + 1) + 3
      [] r.pc = "terminate" -> 3 * (r.numPages + 2) + 1
      [] r.pc = "catchTerminate" -> 3 * (r.numPages + 2) + 2
      [] OTHER -> 3 * (r.numPages + 2) + 3

\* C27: nothing is retried inside one operation: it creates at most one
\* worker, and it only moves forward through its calls, so that each page is
\* fetched, rendered and recognized at most once (an image recognized once),
\* also after a failure.
C27_NothingRetried ==
    [][\A o \in OpIds :
          /\ worker'[o].created <= 1
          /\ op'[o] # op[o] => PositionOf(op'[o]) > PositionOf(op[o])]_vars

\* an image operation has failed at recognize and ended, one worker created
C27_Witness ==
    \E o \in OpIds :
        /\ op[o].type = "image"
        /\ op[o].pc = "done"
        /\ obs[o].outcome = "failed"
        /\ worker[o].created = 1
        /\ worker[o].terminateCalls = 1

\* C28: releasing the worker is idempotent within an operation: the step in
\* which terminate() succeeds calls terminate() no further, and once
\* terminate() has succeeded no later step of the operation calls it again or
\* changes the worker.
C28_ReleaseIdempotent ==
    [][\A o \in OpIds :
          /\ (worker[o].state = "alive" /\ worker'[o].state = "terminated") =>
                worker'[o].terminateCalls = worker[o].terminateCalls
          /\ worker[o].state = "terminated" => worker'[o] = worker[o]]_vars

\* the worker of a PDF operation was released once and the operation has
\* gone on to publish its outcome and to end
C28_Witness ==
    \E o \in OpIds :
        /\ op[o].type = "pdf"
        /\ op[o].pc = "done"
        /\ obs[o].outcome = "success"
        /\ worker[o].state = "terminated"
        /\ worker[o].terminateCalls = 1

\* round(base_i + 0.1 * budget) for page i of N: the value of the render step
RenderStepValue(N, i) ==
    MathRound(Add(<<(i - 1) * 100, N>>, Mul(<<1, 10>>, <<100, N>>)))

\* C29: a tenth of each page's budget is reserved for the render step: every
\* recognition progress value emitted for page i is at least the value
\* round(base_i + 0.1 * budget) set at the render step of page i.
C29_RecognitionAboveRenderStep ==
    [][\A o \in OpIds :
          (/\ InLoop(o)
           /\ op[o].pc = "recognize"
           /\ op'[o] = op[o]
           /\ processingMessage'[1] = "Analisando pagina (Progresso OCR)") =>
              Leq(RenderStepValue(op[o].numPages, op[o].i), processingProgress')]_vars

\* C30: a status message of type "error" is never cleared by a timer: when a
\* pending clearStatusMessageAfterDelay timer fires while an error is
\* displayed, the error stays displayed.
C30_ErrorNotClearedByTimer ==
    [][(statusMessage.type = "error" /\ timers' < timers) =>
          statusMessage' = statusMessage]_vars

\* C31: whenever an OCR operation is in flight the shared isLoading flag is
\* true and the processing message is not empty: the finally block of one
\* operation does not switch isLoading off, or empty the message, while
\* another operation is still running.
C31_LoadingWhileInFlight ==
    (\E o \in OpIds : InFlight(o)) =>
        /\ isLoading = TRUE
        /\ processingMessage # EmptyMessage

\* C32: while a PDF operation is recognizing page i, the shared cell
\* ocrPageProgressDataRef holds that operation's values: currentPage = i,
\* totalPages = N, baseProgress = (i - 1) / N * 100, pageBudget = 100 / N.
C32_ProgressCellOwned ==
    \A o \in OpIds :
        (op[o].type = "pdf" /\ op[o].pc = "recognize") =>
            /\ ocrPageProgressDataRef.currentPage = op[o].i
            /\ ocrPageProgressDataRef.totalPages = op[o].numPages
            /\ EqNum(ocrPageProgressDataRef.baseProgress,
                     <<(op[o].i - 1) * 100, op[o].numPages>>)
            /\ EqNum(ocrPageProgressDataRef.pageBudget, <<100, op[o].numPages>>)

\* C33: the OCR text in rawExtractedText belongs to the file held in
\* currentFile: an operation publishes its text only while its file is the
\* one held, so that an operation for an earlier file that finishes later
\* does not overwrite, and no operation leaves text while currentFile is null.
C33_TextBelongsToCurrentFile ==
    [][\A o \in OpIds :
          (obs[o].outcome = "none" /\ obs'[o].outcome = "success") =>
              currentFile' = o]_vars

\* ---------------------------------------------------------------- sign-out

\* onAuthStateChange delivers SIGNED_OUT: the document state is cleared; the
\* handler reaches no operation in flight
SignedOutEvent ==
    /\ ~signedOut
    /\ signedOut' = TRUE
    /\ rawExtractedText' = <<>>
    /\ currentFile' = NoOp
    /\ UNCHANGED <<isLoading, statusMessage, timers, processingProgress,
                   processingMessage, ocrPageProgressDataRef, nextOp, op, worker,
                   page, obs, hooks>>

\* the user uploads or removes a file while signed in
UserAction ==
    /\ ~signedOut
    /\ (Upload \/ RemoveFile)

\* One upload and a sign-out at any moment of it; after the sign-out the user
\* does nothing, while the awaited calls settle and the timers fire.
NextSignOut ==
    \/ UserAction
    \/ SignedOutEvent
    \/ TimerFire
    \/ OperationStep

SpecSignOut == Init /\ [][NextSignOut]_vars

\* C34: after a SIGNED_OUT event, and until the user acts again, the extracted
\* text is empty and no file is held; an OCR call in flight at the sign-out
\* does not write its result into the cleared state.
C34_ClearedAfterSignOut ==
    signedOut => (rawExtractedText = <<>> /\ currentFile = NoOp)

\* ---------------------------------------------------------------- useAsync
\* Code blocks are operators on the hook's record u. abort() only sets the
\* signal's flag: the signal is never handed to asyncFunction, which settles
\* by itself. The logger's promises resolve.

\* if (abortControllerRef.current) abortControllerRef.current.abort(),
\* called by the timer of execute call timer, or with 0 by anything else
AbortCurrent(u, timer) ==
    LET k == u.abortControllerRef
    IN IF k = 0 \/ u.controller[k].aborted THEN u
       ELSE [u EXCEPT !.controller[k] = [aborted |-> TRUE, timer |-> timer]]

\* if (timeoutRef.current) { clearTimeout(timeoutRef.current); timeoutRef.current = null }
ClearTimeoutRef(u) ==
    [u EXCEPT !.timeouts = @ \ {u.timeoutRef}, !.timeoutRef = 0]

\* execute(...args) up to await logger.debug
ExecuteStart(u, fromRetry) ==
    LET k == u.executes + 1
        u1 == AbortCurrent(u, 0)
    IN [u1 EXCEPT !.executes = k,
                  !.abortControllerRef = k,
                  !.state = [isLoading |-> TRUE, isSuccess |-> FALSE, isError |-> FALSE],
                  !.exec[k] = [IdleExecute EXCEPT !.pc = "debug", !.fromRetry = fromRetry]]

\* try { timeoutRef.current = setTimeout(...); await asyncFunction(...args)
ExecuteArm(u, k) ==
    [u EXCEPT !.timeoutRef = k,
              !.timeouts = @ \cup {k},
              !.exec[k].pc = "function",
              !.retry.invocations = IF u.exec[k].fromRetry THEN @ + 1 ELSE @]

\* asyncFunction resolved: if (signal.aborted) { await logger.debug; return }
\* ... safeSetState(success); await logger.info
ExecuteResolved(u, k) ==
    IF u.controller[k].aborted
    THEN [u EXCEPT !.exec[k].pc = "cancelledLog", !.exec[k].abortedAtSettle = TRUE]
    ELSE [ClearTimeoutRef(u) EXCEPT
            !.state = [isLoading |-> FALSE, isSuccess |-> TRUE, isError |-> FALSE],
            !.reported = @ \cup {k},
            !.exec[k].pc = "successLog"]

\* asyncFunction rejected: catch { clear the timeout; if (signal.aborted)
\* { await logger.debug; return } await errorHandler.handleError(error)
ExecuteRejected(u, k, error) ==
    LET u1 == ClearTimeoutRef(u)
    IN IF u.controller[k].aborted
       THEN [u1 EXCEPT !.exec[k].pc = "cancelledLog", !.exec[k].abortedAtSettle = TRUE]
       ELSE [u1 EXCEPT !.exec[k].pc = "handleError", !.exec[k].result = error]

\* the await execute call k is suspended at (after asyncFunction) resolves
ExecuteLogged(u, k) ==
    CASE u.exec[k].pc = "cancelledLog" ->
            [u EXCEPT !.exec[k].pc = "returned", !.exec[k].result = "undefined"]
      [] u.exec[k].pc = "successLog" ->
            [u EXCEPT !.exec[k].pc = "returned", !.exec[k].result = "value"]
      [] u.exec[k].pc = "handleError" ->
            [u EXCEPT !.exec[k].pc = "logError"]
      [] u.exec[k].pc = "logError" ->
            [u EXCEPT !.exec[k].pc = "threw",
                      !.state = [isLoading |-> FALSE, isSuccess |-> FALSE, isError |-> TRUE]]

\* retryConfig.retryCondition, the default
RetryCondition(error) == error # "critical"

\* a shouldRetry that does not ask retryCondition
ShouldRetry_IgnoresCondition(attempt, lastError) ==
    attempt < maxAttempts

\* attempt < retryConfig.maxAttempts && retryConfig.retryCondition(lastError)
ShouldRetry(attempt, lastError) ==
    attempt < maxAttempts /\ RetryCondition(lastError)

\* executeWithRetry: the loop's next execute call
RetryAttempt(u, attempt) ==
    LET u1 == ExecuteStart(u, TRUE)
    IN [u1 EXCEPT !.retry.pc = "execute", !.retry.attempt = attempt,
                  !.retry.current = u1.executes]

\* executeWithRetry after await execute(...args): return result, or the catch
RetryAfterExecute(u) ==
    LET e == u.exec[u.retry.current]
    IN IF e.pc = "returned"
       THEN [u EXCEPT !.retry.pc = "returned", !.retry.result = e.result]
       ELSE IF ShouldRetry(u.retry.attempt, e.result)
            THEN [u EXCEPT !.retry.lastError = e.result, !.retry.pc = "retryLog"]
            ELSE [u EXCEPT !.retry.lastError = e.result, !.retry.pc = "threw",
                           !.retry.result = e.result]

\* cancel()
CancelAsync(u) ==
    LET u1 == ClearTimeoutRef([AbortCurrent(u, 0) EXCEPT !.abortControllerRef = 0])
    IN [u1 EXCEPT !.state.isLoading = FALSE]

\* an action of the hook leaves the rest of the application alone
AsyncStep(u) == useAsync' = u /\ UNCHANGED <<component, signedOut, useApi, useFileUpload>>

\* the component calls execute
Execute ==
    /\ useAsync.executes < MaxExecutes
    /\ Cardinality({ k \in Executes : useAsync.exec[k].pc # "idle"
                                        /\ ~useAsync.exec[k].fromRetry }) < MaxDirect
    /\ AsyncStep(ExecuteStart(useAsync, FALSE))

\* the component calls executeWithRetry
ExecuteWithRetry ==
    /\ useAsync.retry.pc = "idle"
    /\ useAsync.executes < MaxExecutes
    /\ AsyncStep(RetryAttempt(useAsync, 1))

DebugLogged(k) ==
    /\ useAsync.exec[k].pc = "debug"
    /\ AsyncStep(ExecuteArm(useAsync, k))

\* asyncFunction settles: with a value, or with an error that handleError
\* turns into a critical AppError or into another one
FunctionSettles(k, outcome) ==
    /\ useAsync.exec[k].pc = "function"
    /\ AsyncStep(IF outcome = "value" THEN ExecuteResolved(useAsync, k)
                 ELSE ExecuteRejected(useAsync, k, outcome))

ExecuteLogDone(k) ==
    /\ useAsync.exec[k].pc \in {"cancelledLog", "successLog", "handleError", "logError"}
    /\ AsyncStep(ExecuteLogged(useAsync, k))

\* the timeout timer armed by execute call k fires
TimeoutFires(k) ==
    /\ k \in useAsync.timeouts
    /\ AsyncStep([AbortCurrent(useAsync, k) EXCEPT !.timeouts = @ \ {k}])

RetryResumes ==
    /\ useAsync.retry.pc = "execute"
    /\ useAsync.exec[useAsync.retry.current].pc \in {"returned", "threw"}
    /\ AsyncStep(RetryAfterExecute(useAsync))

\* await logger.info('Tentando novamente ...') resolves
RetryLogged ==
    /\ useAsync.retry.pc = "retryLog"
    /\ AsyncStep([useAsync EXCEPT !.retry.pc = "delay"])

\* the delay before the next attempt is over
RetryDelayOver ==
    /\ useAsync.retry.pc = "delay"
    /\ useAsync.executes < MaxExecutes
    /\ AsyncStep(RetryAttempt(useAsync, useAsync.retry.attempt + 1))

Cancel ==
    /\ useAsync.abortControllerRef # 0
    /\ AsyncStep(CancelAsync(useAsync))

Outcomes == {"value", "critical", "other"}

\* One executeWithRetry call, with direct execute calls and cancel at any
\* moment, every outcome of asyncFunction and the timers firing at any moment.
NextAsync ==
    \/ Execute
    \/ ExecuteWithRetry
    \/ Cancel
    \/ RetryResumes
    \/ RetryLogged
    \/ RetryDelayOver
    \/ \E k \in Executes :
          \/ DebugLogged(k)
          \/ \E outcome \in Outcomes : FunctionSettles(k, outcome)
          \/ ExecuteLogDone(k)
          \/ TimeoutFires(k)

SpecAsync == Init /\ [][NextAsync]_vars

\* C35: the timeout timer armed by one execute call never aborts the
\* AbortController of another execute call.
C35_TimeoutAbortsOwnCall ==
    \A k \in Executes : useAsync.controller[k].timer \in {0, k}

\* C36: one executeWithRetry call invokes asyncFunction at most maxAttempts
\* times, makes no further attempt once retryCondition is false for an error,
\* throws the last error when its last attempt failed, and an attempt found
\* aborted (superseded, cancelled or timed out) when asyncFunction settled is
\* not reported as a success: no success state, and undefined as its result.
C36_RetryBounded ==
    LET r == useAsync.retry
    IN /\ r.invocations <= maxAttempts
       /\ r.attempt <= maxAttempts
       /\ (r.lastError # "none" /\ ~RetryCondition(r.lastError)) => r.pc = "threw"
       /\ r.pc = "threw" =>
             /\ useAsync.exec[r.current].pc = "threw"
             /\ r.result = useAsync.exec[r.current].result
             /\ r.result \in {"critical", "other"}
       /\ r.pc = "returned" =>
             /\ useAsync.exec[r.current].pc = "returned"
             /\ r.result = useAsync.exec[r.current].result
       /\ \A k \in Executes :
             useAsync.exec[k].abortedAtSettle =>
                 /\ k \notin useAsync.reported
                 /\ useAsync.exec[k].result \in {"none", "undefined"}

\* all the attempts failed and the last error was thrown
C36_Witness ==
    /\ useAsync.retry.pc = "threw"
    /\ useAsync.retry.invocations = maxAttempts
    /\ useAsync.retry.result = "other"

\* ------------------------------------------------------------------ useApi
\* The cache is off (defaultConfig.cache). A request is one makeRequest call:
\* fetch with the signal of the hook's controller, and the parse of the body.

\* if (abortControllerRef.current) abortControllerRef.current.abort()
AbortRequest(u) ==
    IF u.abortControllerRef = 0 THEN u
    ELSE [u EXCEPT !.req[u.abortControllerRef].aborted = TRUE]

\* execute(req) up to await makeRequest, called by the component or by a retry timer
ApiExecuteStart(u, byTimer) ==
    LET k == u.requests + 1
    IN [AbortRequest(u) EXCEPT
            !.requests = k,
            !.abortControllerRef = k,
            !.loading = TRUE,
            !.cancelled = IF byTimer THEN @ ELSE FALSE,
            !.req[k] = [pc |-> "fetch", aborted |-> FALSE, byTimer |-> byTimer,
                        afterCancel |-> byTimer /\ u.cancelled]]

\* what makeRequest settles with: a response, or an ApiError with a status
\* (HTTP 4xx, 5xx) or without one (the network failed, the fetch was aborted)
ApiOutcomes == {"ok", "http4xx", "http5xx", "network", "abort"}

\* retryCountRef.current < globalConfig.retries && (!apiError.status || apiError.status >= 500)
ApiShouldRetry(u, outcome) ==
    /\ u.retryCountRef < retries
    /\ outcome \in {"network", "abort", "http5xx"}

\* execute after await makeRequest: the success path, or the catch
ApiSettled(u, k, outcome) ==
    IF outcome = "ok"
    THEN [u EXCEPT !.loading = FALSE, !.retryCountRef = 0, !.req[k].pc = "done"]
    ELSE IF ApiShouldRetry(u, outcome)
         THEN [u EXCEPT !.loading = FALSE,
                        !.retryCountRef = @ + 1,
                        !.retryTimers = @ \cup {k},
                        !.req[k].pc = "retrying"]
         ELSE [u EXCEPT !.loading = FALSE, !.req[k].pc = "threw"]

\* cancel(): the controller is aborted and loading reset; the reference, the
\* retry count and the retry timers are left as they are
ApiCancelled(u) ==
    [AbortRequest(u) EXCEPT !.loading = FALSE, !.cancelled = TRUE]

\* an action of the hook leaves the rest of the application alone
ApiStep(u) == useApi' = u /\ UNCHANGED <<component, signedOut, useAsync, useFileUpload>>

\* the component calls execute
ApiExecute ==
    /\ useApi.mounted
    /\ useApi.requests < MaxRequests
    /\ ApiStep(ApiExecuteStart(useApi, FALSE))

\* makeRequest settles; an aborted fetch rejects with an AbortError
ApiRequestSettles(k, outcome) ==
    /\ useApi.req[k].pc = "fetch"
    /\ useApi.req[k].aborted <=> outcome = "abort"
    /\ ApiStep(ApiSettled(useApi, k, outcome))

\* setTimeout(() => execute(req), delay) fires
ApiRetryFires(k) ==
    /\ k \in useApi.retryTimers
    /\ useApi.requests < MaxRequests
    /\ ApiStep(ApiExecuteStart([useApi EXCEPT !.retryTimers = @ \ {k}], TRUE))

\* the component calls cancel
ApiCancel ==
    /\ useApi.mounted
    /\ useApi.abortControllerRef # 0
    /\ ~useApi.cancelled
    /\ ApiStep(ApiCancelled(useApi))

\* the component unmounts: the cleanup aborts the controller
ApiUnmount ==
    /\ useApi.mounted
    /\ ApiStep([AbortRequest(useApi) EXCEPT !.mounted = FALSE, !.cancelled = TRUE])

NextApi ==
    \/ ApiExecute
    \/ ApiCancel
    \/ ApiUnmount
    \/ \E k \in Requests :
          \/ \E outcome \in ApiOutcomes : ApiRequestSettles(k, outcome)
          \/ ApiRetryFires(k)

SpecApi == Init /\ [][NextApi]_vars

\* C37: after cancel() or the unmount, and until the component calls execute
\* again, no request is issued: the abort schedules no retry and a pending
\* retry timer starts no request.
C37_NoRequestAfterCancel ==
    \A k \in Requests : ~useApi.req[k].afterCancel

\* ----------------------------------------------------------- useFileUpload
\* addFiles reads state.files from its closure: the value of the render in
\* which the callback was created, its snapshot, at every line of the call.

\* catch (error) { await errorHandler.handleError(error)
AddCaught(u, a) == [u EXCEPT !.add[a].pc = "handleError"]

\* an update that appends to the latest state instead of the snapshot
AppendFiles_ToLatestState(u, a) ==
    [u EXCEPT !.files = u.files \o u.add[a].newFiles, !.error = FALSE,
              !.add[a].pc = "added"]

\* updateState({ files: [...state.files, ...newFiles], error: null }); await logger.info
AppendFiles(u, a) ==
    [u EXCEPT !.files = u.add[a].snapshot \o u.add[a].newFiles, !.error = FALSE,
              !.add[a].pc = "added"]

\* for (const file of fileArray): the next file is validated, or the loop is over
NextFile(u, a) ==
    IF Len(u.add[a].newFiles) < u.add[a].given
    THEN [u EXCEPT !.add[a].pc = "validate"]
    ELSE AppendFiles(u, a)

\* addFiles(files) with given files, up to await logger.info
AddStart(u, given) ==
    LET a == u.adds + 1
    IN [u EXCEPT !.adds = a,
                 !.add[a] = [IdleAdd EXCEPT !.pc = "info", !.snapshot = u.files,
                                            !.given = given]]

\* if (state.files.length + fileArray.length > maxFiles) throw ...; the loop starts
AddAfterInfo(u, a) ==
    IF Len(u.add[a].snapshot) + u.add[a].given > maxFiles
    THEN AddCaught(u, a)
    ELSE NextFile(u, a)

\* after await validateFile(file)
AddAfterValidate(u, a, validation) ==
    IF validation = "invalid" THEN AddCaught(u, a)
    ELSE [u EXCEPT !.add[a].pc = "preview",
                   !.add[a].warnings = (validation = "warnings")]

\* after await createPreview(file): newFiles.push(fileInfo), the warnings logged
AddAfterPreview(u, a, ok) ==
    IF ~ok THEN AddCaught(u, a)
    ELSE LET u1 == [u EXCEPT !.add[a].newFiles =
                                 Append(@, <<a, Len(u.add[a].newFiles) + 1>>)]
         IN IF u.add[a].warnings THEN [u1 EXCEPT !.add[a].pc = "warn"]
            ELSE NextFile(u1, a)

\* after one of the other awaits of addFiles
AddAfterLog(u, a) ==
    CASE u.add[a].pc = "warn" -> NextFile(u, a)
      [] u.add[a].pc = "added" -> [u EXCEPT !.add[a].pc = "returned"]
      [] u.add[a].pc = "handleError" ->
            [u EXCEPT !.error = TRUE, !.add[a].pc = "threw"]

\* removeFile(fileId) for a file of state.files, up to await logger.info
RemoveFromFiles(u, fileId) ==
    [u EXCEPT !.files = SelectSeq(u.files, LAMBDA f : f # fileId)]

\* clearFiles() up to await logger.info
ClearedFiles(u) == [u EXCEPT !.files = <<>>, !.error = FALSE]

\* an action of the hook leaves the rest of the application alone
UploadStep(u) ==
    useFileUpload' = u /\ UNCHANGED <<component, signedOut, useAsync, useApi>>

\* the component calls addFiles with 1 .. MaxGiven files
AddFiles ==
    /\ useFileUpload.adds < MaxAdds
    /\ \E given \in 1 .. MaxGiven : UploadStep(AddStart(useFileUpload, given))

AddInfoLogged(a) ==
    /\ useFileUpload.add[a].pc = "info"
    /\ UploadStep(AddAfterInfo(useFileUpload, a))

AddValidated(a) ==
    /\ useFileUpload.add[a].pc = "validate"
    /\ \E validation \in {"valid", "warnings", "invalid"} :
          UploadStep(AddAfterValidate(useFileUpload, a, validation))

AddPreviewed(a) ==
    /\ useFileUpload.add[a].pc = "preview"
    /\ \E ok \in BOOLEAN : UploadStep(AddAfterPreview(useFileUpload, a, ok))

AddLogged(a) ==
    /\ useFileUpload.add[a].pc \in {"warn", "added", "handleError"}
    /\ UploadStep(AddAfterLog(useFileUpload, a))

\* the component calls removeFile for a file it shows
RemoveUploadFile ==
    \E i \in 1 .. Len(useFileUpload.files) :
        UploadStep(RemoveFromFiles(useFileUpload, useFileUpload.files[i]))

\* the component calls clearFiles
ClearFiles ==
    /\ useFileUpload.files # <<>>
    /\ UploadStep(ClearedFiles(useFileUpload))

\* Up to MaxAdds addFiles calls, each possibly made while the earlier ones are
\* suspended at an await, with removeFile and clearFiles at any moment.
NextUpload ==
    \/ AddFiles
    \/ RemoveUploadFile
    \/ ClearFiles
    \/ \E a \in Adds :
          \/ AddInfoLogged(a)
          \/ AddValidated(a)
          \/ AddPreviewed(a)
          \/ AddLogged(a)

SpecUpload == Init /\ [][NextUpload]_vars

\* C38: state.files never holds more than maxFiles files, whatever the
\* interleaving of addFiles, removeFile and clearFiles.
C38_FilesWithinLimit ==
    Len(useFileUpload.files) <= maxFiles

\* two addFiles calls that overlapped have both written their files, each
\* having passed the limit check with the same empty snapshot
C38_Witness ==
    \E a, b \in Adds :
        /\ a # b
        /\ useFileUpload.add[a].pc = "returned"
        /\ useFileUpload.add[b].pc = "returned"
        /\ useFileUpload.add[a].snapshot = <<>>
        /\ useFileUpload.add[b].snapshot = <<>>
        /\ useFileUpload.add[a].given + useFileUpload.add[b].given > maxFiles

====
